---- MODULE Spec2Model ----
(***************************************************************************)
(* Session state persistence of the Claude Code Telegram monitor:          *)
(* bot/state.py (SessionState, StateManager) and the read-only commands of *)
(* bot/telegram_bot.py.  The store is one JSON file that every operation   *)
(* re-reads and fully rewrites.                                            *)
(*                                                                         *)
(* Python values: None is the empty tuple and an Optional value x is <<x>>;*)
(* a str that the code slices (the tool output) is a tuple of characters;  *)
(* time.time() is the integer clock `now`, in whole seconds.               *)
(***************************************************************************)
EXTENDS Integers, Sequences, FiniteSets, TLC

\* ---------------------------------------------------------------- constants

\* state.recent_tools[-10:]
RecentCap == 10
\* output[:100]
OutputCap == 100

\* ------------------------------------------------------------------- bounds

\* The clock runs from 1 to MaxTime.
MaxTime == 2
\* end_tool calls per session in Spec and SpecTools.
MaxCalls == 2
\* end_tool calls per session in SpecStore and SpecFault.
MaxStoreCalls == 1
\* end_tool calls per session in SpecEvict (more than RecentCap).
MaxEvictCalls == 11
\* Tool executions of one name that are open at the same time in SpecTools.
MaxOpen == 2

\* Invocations of all processes together in SpecConc.
MaxInvocations == 2
\* Pieces in which the text of one save can reach the file.
MaxChunks == 2

\* ------------------------------------------------------------------- inputs

None == <<>>
Some(x) == <<x>>

SessionIds == {"abc123", "0123456789abcdef"}
ProjectDirs == {"/proj"}
Reasons == {"completed", "logout"}
ToolNames == {"Bash", "Edit"}
ToolInputs == {[command |-> "ls"]}

OutEmpty == <<>>
OutOk == <<"o", "k">>
RECURSIVE Repeat(_, _)
Repeat(c, n) == IF n = 0 THEN <<>> ELSE Append(Repeat(c, n - 1), c)
OutLong == Repeat("x", OutputCap + 1)

\* The end_tool calls of Spec and SpecTools: both tool names, both outcomes,
\* an output longer than OutputCap, an empty one and a short one.
EndCalls ==
    { [tool_name |-> "Bash", success |-> TRUE, output |-> OutLong],
      [tool_name |-> "Bash", success |-> FALSE, output |-> OutEmpty],
      [tool_name |-> "Edit", success |-> TRUE, output |-> OutOk] }

\* The two kinds of end_tool call of SpecEvict.
EvictCalls ==
    { [tool_name |-> "Bash", success |-> TRUE, output |-> OutOk],
      [tool_name |-> "Edit", success |-> FALSE, output |-> OutEmpty] }

\* ------------------------------------------------------------- SessionState

FieldOrder ==
    << "session_id", "project_dir", "start_time", "end_time", "is_active",
       "total_tools", "successful_tools", "failed_tools", "current_tool",
       "recent_tools", "last_update" >>

FieldNames == { FieldOrder[i] : i \in 1..Len(FieldOrder) }

\* SessionState(): every field at its dataclass default.
SessionState ==
    [ session_id |-> "", project_dir |-> "", start_time |-> 0,
      end_time |-> None, is_active |-> FALSE, total_tools |-> 0,
      successful_tools |-> 0, failed_tools |-> 0, current_tool |-> None,
      recent_tools |-> <<>>, last_update |-> 0 ]

\* asdict(self): the dict of the fields.
to_dict(state) ==
    [ session_id |-> state.session_id, project_dir |-> state.project_dir,
      start_time |-> state.start_time, end_time |-> state.end_time,
      is_active |-> state.is_active, total_tools |-> state.total_tools,
      successful_tools |-> state.successful_tools,
      failed_tools |-> state.failed_tools,
      current_tool |-> state.current_tool,
      recent_tools |-> state.recent_tools,
      last_update |-> state.last_update ]

\* ------------------------------------------------------------------ helpers

Min(a, b) == IF a < b THEN a ELSE b

\* s[:n]
Prefix(s, n) == SubSeq(s, 1, Min(Len(s), n))

\* s[-n:]
Suffix(s, n) == IF Len(s) <= n THEN s ELSE SubSeq(s, Len(s) - n + 1, Len(s))

\* datetime.now().strftime("%H:%M:%S") at clock t.
strftime(t) == << (t \div 3600) % 24, (t \div 60) % 60, t % 60 >>

\* ------------------------------------------------------ the JSON store file

(***************************************************************************)
(* The text of the file is a sequence of tokens: an opening brace, one     *)
(* token per member (a key and its encoded value), a closing brace.  A     *)
(* JSON value is a tagged tuple: <<"null">>, <<"num", n>>, <<"str", s>>,   *)
(* <<"bool", b>>, <<"obj", members>>, <<"arr", elements>>.  A write that   *)
(* has not finished leaves a proper prefix of the tokens.  Members whose   *)
(* value has another JSON type than the field's annotation are not         *)
(* modelled.                                                               *)
(***************************************************************************)
Punct(c) == [key |-> c, val |-> <<"punct">>]
LBrace == Punct("{")
RBrace == Punct("}")
LBracket == Punct("[")
RBracket == Punct("]")
\* Bytes that are text but no JSON.
Garbage == Punct("garbage")
\* A byte that is no UTF-8.
BadByte == Punct("0xff")

Member(k, v) == [key |-> k, val |-> v]

\* json.JSONEncoder on the list of tool records.
RECURSIVE EncodeRecords(_)
EncodeRecords(v) ==
    IF v = <<>> THEN <<>>
    ELSE <<  <<"obj", [ name |-> <<"str", Head(v).name>>,
                        success |-> <<"bool", Head(v).success>>,
                        time |-> <<"str", Head(v).time>>,
                        output |-> <<"str", Head(v).output>> ]>>  >>
         \o EncodeRecords(Tail(v))

\* json.JSONDecoder on the array of tool records.
RECURSIVE DecodeRecords(_)
DecodeRecords(j) ==
    IF j = <<>> THEN <<>>
    ELSE << [ name |-> Head(j)[2].name[2],
              success |-> Head(j)[2].success[2],
              time |-> Head(j)[2].time[2],
              output |-> Head(j)[2].output[2] ] >>
         \o DecodeRecords(Tail(j))

\* json.JSONEncoder on the value of field k.
Encode(k, v) ==
    CASE k \in {"session_id", "project_dir"} -> <<"str", v>>
      [] k \in {"start_time", "last_update", "total_tools",
                "successful_tools", "failed_tools"} -> <<"num", v>>
      [] k = "is_active" -> <<"bool", v>>
      [] k = "end_time" -> IF v = None THEN <<"null">> ELSE <<"num", v[1]>>
      [] k = "current_tool" ->
            IF v = None THEN <<"null">>
            ELSE <<"obj", [ name |-> <<"str", v[1].name>>,
                            input |-> <<"obj", v[1].input>>,
                            start_time |-> <<"num", v[1].start_time>> ]>>
      [] k = "recent_tools" -> <<"arr", EncodeRecords(v)>>

\* json.JSONDecoder on the value of member k.
Decode(k, j) ==
    CASE k \in {"session_id", "project_dir", "start_time", "last_update",
                "total_tools", "successful_tools", "failed_tools",
                "is_active"} -> j[2]
      [] k = "end_time" -> IF j[1] = "null" THEN None ELSE Some(j[2])
      [] k = "current_tool" ->
            IF j[1] = "null" THEN None
            ELSE Some([ name |-> j[2].name[2],
                        input |-> j[2].input[2],
                        start_time |-> j[2].start_time[2] ])
      [] k = "recent_tools" -> DecodeRecords(j[2])

\* json.dump(d, f, indent=2, default=str): the whole text of the file.
RECURSIVE Members(_, _)
Members(d, keys) ==
    IF keys = <<>> THEN <<>>
    ELSE << Member(Head(keys), Encode(Head(keys), d[Head(keys)])) >>
         \o Members(d, Tail(keys))

json_dump(d) == <<LBrace>> \o Members(d, FieldOrder) \o <<RBrace>>

IsMember(tok) == tok.val # <<"punct">>

\* json.load(f): the error it raises ("" for none) and the value it returns.
json_load(text) ==
    IF \E i \in 1..Len(text) : text[i] = BadByte
    THEN [err |-> "UnicodeDecodeError", kind |-> "", members |-> <<>>]
    ELSE IF /\ Len(text) >= 2
            /\ text[1] = LBrace
            /\ text[Len(text)] = RBrace
            /\ \A i \in 2..(Len(text) - 1) : IsMember(text[i])
    THEN [err |-> "", kind |-> "object",
          members |-> SubSeq(text, 2, Len(text) - 1)]
    ELSE IF text = <<LBracket, RBracket>>
    THEN [err |-> "", kind |-> "array", members |-> <<>>]
    ELSE [err |-> "JSONDecodeError", kind |-> "", members |-> <<>>]

Keys(members) == { members[i].key : i \in 1..Len(members) }

\* The value of key k in a JSON object: the last member of that key.
Lookup(members, k) ==
    LET idx == { i \in 1..Len(members) : members[i].key = k }
        last == CHOOSE i \in idx : \A j \in idx : j <= i
    IN  members[last].val

\* cls(**data) raises TypeError for a non-mapping or an unknown keyword.
from_dict_TypeError(data) ==
    \/ data.kind # "object"
    \/ ~(Keys(data.members) \subseteq FieldNames)

\* cls(**data): the given fields, the others at their defaults.
Field(data, k) ==
    IF k \in Keys(data.members)
    THEN Decode(k, Lookup(data.members, k))
    ELSE SessionState[k]

\* from_dict that leaves the Optional fields at their defaults.
from_dict_DropsOptional(data) ==
    [ session_id |-> Field(data, "session_id"),
      project_dir |-> Field(data, "project_dir"),
      start_time |-> Field(data, "start_time"),
      end_time |-> SessionState.end_time,
      is_active |-> Field(data, "is_active"),
      total_tools |-> Field(data, "total_tools"),
      successful_tools |-> Field(data, "successful_tools"),
      failed_tools |-> Field(data, "failed_tools"),
      current_tool |-> SessionState.current_tool,
      recent_tools |-> Field(data, "recent_tools"),
      last_update |-> Field(data, "last_update") ]

from_dict(data) ==
    [ session_id |-> Field(data, "session_id"),
      project_dir |-> Field(data, "project_dir"),
      start_time |-> Field(data, "start_time"),
      end_time |-> Field(data, "end_time"),
      is_active |-> Field(data, "is_active"),
      total_tools |-> Field(data, "total_tools"),
      successful_tools |-> Field(data, "successful_tools"),
      failed_tools |-> Field(data, "failed_tools"),
      current_tool |-> Field(data, "current_tool"),
      recent_tools |-> Field(data, "recent_tools"),
      last_update |-> Field(data, "last_update") ]

\* The store when no file exists.
Absent == [exists |-> FALSE, readable |-> TRUE, writable |-> TRUE, text |-> <<>>]

\* A file of the given text.
FileOf(text) == [exists |-> TRUE, readable |-> TRUE, writable |-> TRUE, text |-> text]

\* load that lets the JSONDecodeError of a malformed file escape.
load_Propagates(f) ==
    IF ~f.exists
    THEN [raised |-> "", state |-> SessionState]
    ELSE IF ~f.readable
    THEN [raised |-> "PermissionError", state |-> SessionState]
    ELSE LET data == json_load(f.text)
         IN  IF data.err # ""
             THEN [raised |-> data.err, state |-> SessionState]
             ELSE IF from_dict_TypeError(data)
             THEN [raised |-> "", state |-> SessionState]
             ELSE [raised |-> "", state |-> from_dict(data)]

\* StateManager.load on file f: the exception that escapes it ("" for none)
\* and the state it returns.
load(f) ==
    IF ~f.exists
    THEN [raised |-> "", state |-> SessionState]
    ELSE IF ~f.readable
    THEN [raised |-> "PermissionError", state |-> SessionState]
    ELSE LET data == json_load(f.text)
         IN  IF data.err = "UnicodeDecodeError"
             THEN [raised |-> "UnicodeDecodeError", state |-> SessionState]
             ELSE IF data.err = "JSONDecodeError" \/ from_dict_TypeError(data)
             THEN [raised |-> "", state |-> SessionState]
             ELSE [raised |-> "", state |-> from_dict(data)]

\* The state object after save has stamped it at clock t.
Stamped(state, t) == [state EXCEPT !.last_update = t]

\* StateManager.save: the text written for state at clock t.
save_text(state, t) == json_dump(to_dict(Stamped(state, t)))

\* -------------------------------------------------------------------- state

VARIABLES
    file,   \* the store: exists, readable, writable, text
    now,    \* the clock, time.time()
    ret,    \* the last call that ended: op, raised ("" for a normal return),
            \* state (the SessionState returned), out (the str returned)
    hist,   \* history: the records of the end_tool calls since start_session
            \* (or since the initial state)
    open,   \* history: per tool name, the start_tool calls not yet matched
            \* by an end_tool of that name
    life,   \* history: how far the calls since start_session follow the
            \* lifecycle start_session, (start_tool, end_tool)*, end_session
    arg,    \* the SessionState object handed to a direct call of save
    proc    \* per process: where its invocation stands (pc), the operation,
            \* the state object it holds, the file its load saw, the text it
            \* is writing and how much of it is written, its invocations

vars == << file, now, ret, hist, open, life, arg, proc >>

\* ------------------------------------------------- the StateManager updates

\* start_session that updates the loaded state instead of replacing it.
start_session_state_Merges(session_id, project_dir, t) ==
    [ load(file).state EXCEPT !.session_id = session_id,
                              !.project_dir = project_dir,
                              !.start_time = t,
                              !.is_active = TRUE,
                              !.total_tools = 0,
                              !.successful_tools = 0,
                              !.failed_tools = 0,
                              !.recent_tools = <<>> ]

\* start_session: the fresh SessionState it builds at clock t.
start_session_state(session_id, project_dir, t) ==
    [ SessionState EXCEPT !.session_id = session_id,
                          !.project_dir = project_dir,
                          !.start_time = t,
                          !.is_active = TRUE,
                          !.total_tools = 0,
                          !.successful_tools = 0,
                          !.failed_tools = 0,
                          !.recent_tools = <<>> ]

\* end_session that forgets to clear is_active.
end_session_state_StaysActive(state, reason, t) ==
    [ state EXCEPT !.end_time = Some(t), !.current_tool = None ]

\* end_session that also resets the recent tools.
end_session_state_DropsRecent(state, reason, t) ==
    [ state EXCEPT !.is_active = FALSE,
                   !.end_time = Some(t),
                   !.current_tool = None,
                   !.recent_tools = <<>> ]

\* end_session: its assignments to the loaded state.
end_session_state(state, reason, t) ==
    [ state EXCEPT !.is_active = FALSE,
                   !.end_time = Some(t),
                   !.current_tool = None ]

\* start_tool that records the tool only in an active session.
start_tool_state_OnlyWhenActive(state, tool_name, tool_input, t) ==
    IF state.is_active
    THEN [ state EXCEPT !.current_tool =
             Some([name |-> tool_name, input |-> tool_input, start_time |-> t]) ]
    ELSE state

\* start_tool that also marks the session active.
start_tool_state_Reactivates(state, tool_name, tool_input, t) ==
    [ state EXCEPT !.is_active = TRUE,
                   !.current_tool =
        Some([name |-> tool_name, input |-> tool_input, start_time |-> t]) ]

\* start_tool: its assignment to the loaded state.
start_tool_state(state, tool_name, tool_input, t) ==
    [ state EXCEPT !.current_tool =
        Some([name |-> tool_name, input |-> tool_input, start_time |-> t]) ]

\* end_tool: the record it appends.
tool_record(tool_name, success, output, t) ==
    [ name |-> tool_name,
      success |-> success,
      time |-> strftime(t),
      output |-> IF output # <<>> THEN Prefix(output, OutputCap) ELSE <<>> ]

\* end_tool that counts a failure in total_tools only.
end_tool_state_NoFailCount(state, tool_name, success, output, t) ==
    [ state EXCEPT
        !.total_tools = @ + 1,
        !.successful_tools = IF success THEN @ + 1 ELSE @,
        !.recent_tools =
            Suffix(Append(@, tool_record(tool_name, success, output, t)),
                   RecentCap),
        !.current_tool = None ]

\* end_tool that keeps the first RecentCap records: recent_tools[:10].
end_tool_state_KeepsOldest(state, tool_name, success, output, t) ==
    [ state EXCEPT
        !.total_tools = @ + 1,
        !.successful_tools = IF success THEN @ + 1 ELSE @,
        !.failed_tools = IF success THEN @ ELSE @ + 1,
        !.recent_tools =
            Prefix(Append(@, tool_record(tool_name, success, output, t)),
                   RecentCap),
        !.current_tool = None ]

\* end_tool that clears current_tool only when it names the tool ended.
end_tool_state_PairValidates(state, tool_name, success, output, t) ==
    [ state EXCEPT
        !.total_tools = @ + 1,
        !.successful_tools = IF success THEN @ + 1 ELSE @,
        !.failed_tools = IF success THEN @ ELSE @ + 1,
        !.recent_tools =
            Suffix(Append(@, tool_record(tool_name, success, output, t)),
                   RecentCap),
        !.current_tool =
            IF @ # None /\ @[1].name # tool_name THEN @ ELSE None ]

\* end_tool that ignores a call that does not end the current tool.
end_tool_state_IgnoresUnpaired(state, tool_name, success, output, t) ==
    IF state.current_tool = None \/ state.current_tool[1].name # tool_name
    THEN state
    ELSE [ state EXCEPT
             !.total_tools = @ + 1,
             !.successful_tools = IF success THEN @ + 1 ELSE @,
             !.failed_tools = IF success THEN @ ELSE @ + 1,
             !.recent_tools =
                 Suffix(Append(@, tool_record(tool_name, success, output, t)),
                        RecentCap),
             !.current_tool = None ]

\* end_tool: its assignments to the loaded state.
end_tool_state(state, tool_name, success, output, t) ==
    [ state EXCEPT
        !.total_tools = @ + 1,
        !.successful_tools = IF success THEN @ + 1 ELSE @,
        !.failed_tools = IF success THEN @ ELSE @ + 1,
        !.recent_tools =
            Suffix(Append(@, tool_record(tool_name, success, output, t)),
                   RecentCap),
        !.current_tool = None ]

\* duration_str that still counts a duration of 60 or of 3600 in the lower
\* bucket.
duration_str_LateBoundary(state, t) ==
    IF state.start_time = 0 THEN <<"N/A">>
    ELSE LET end == IF state.end_time # None /\ state.end_time[1] # 0
                    THEN state.end_time[1] ELSE t
             duration == end - state.start_time
         IN  IF duration <= 60 THEN <<duration, "s">>
             ELSE IF duration <= 3600
             THEN <<duration \div 60, "m", duration % 60, "s">>
             ELSE <<duration \div 3600, "h", (duration % 3600) \div 60, "m">>

\* SessionState.duration_str at clock t: the numbers and units of the text.
duration_str(state, t) ==
    IF state.start_time = 0 THEN <<"N/A">>
    ELSE LET end == IF state.end_time # None /\ state.end_time[1] # 0
                    THEN state.end_time[1] ELSE t
             duration == end - state.start_time
         IN  IF duration < 60 THEN <<duration, "s">>
             ELSE IF duration < 3600
             THEN <<duration \div 60, "m", duration % 60, "s">>
             ELSE <<duration \div 3600, "h", (duration % 3600) \div 60, "m">>

\* session_id[:8] of the ids of the model.
Prefix8(sid) == IF sid = "0123456789abcdef" THEN "01234567" ELSE sid

\* Path(project_dir).name of the directories of the model.
Basename(dir) == IF dir = "/proj" THEN "proj" ELSE dir

\* get_status_summary: the lines of the text it returns for a loaded state.
status_summary(state, t) ==
    IF state.session_id = "" THEN << <<"No active session">> >>
    ELSE << <<"Session", Prefix8(state.session_id)>>,
            <<"Project", IF state.project_dir # ""
                         THEN Basename(state.project_dir) ELSE "N/A">>,
            <<"Status", IF state.is_active THEN "Active" ELSE "Ended">>,
            <<"Duration", duration_str(state, t)>>,
            <<"Tools", state.successful_tools, state.total_tools>>,
            <<"Errors", state.failed_tools>> >>
         \o (IF state.current_tool # None
             THEN << <<"Current", state.current_tool[1].name>> >>
             ELSE <<>>)

Returned(op, state, out) ==
    [op |-> op, raised |-> "", state |-> state, out |-> out]

Raised(op, exc) ==
    [op |-> op, raised |-> exc, state |-> SessionState, out |-> <<>>]

\* The state the store holds, as load reads it.
Persisted == load(file).state

\* save(state) and the return of state by operation op: open(..., "w") fails
\* on a store that cannot be written, and the error escapes.
SaveAndReturn(op, state) ==
    IF file.writable
    THEN /\ file' = [file EXCEPT !.exists = TRUE, !.text = save_text(state, now)]
         /\ ret' = Returned(op, Stamped(state, now), <<>>)
    ELSE /\ ret' = Raised(op, "PermissionError")
         /\ UNCHANGED file

\* Operation op after load(): an error of load escapes before anything is
\* written; otherwise updated, op's update of the loaded state, is saved and
\* returned.
LoadMutateSave(op, updated) ==
    IF load(file).raised # ""
    THEN /\ ret' = Raised(op, load(file).raised)
         /\ UNCHANGED file
    ELSE SaveAndReturn(op, updated)

\* ------------------------------------------------------------------ actions

start_session(session_id, project_dir) ==
    /\ SaveAndReturn("start_session",
                     start_session_state(session_id, project_dir, now))
    /\ UNCHANGED now

end_session(reason) ==
    /\ LoadMutateSave("end_session",
                      end_session_state(load(file).state, reason, now))
    /\ UNCHANGED now

start_tool(tool_name, tool_input) ==
    /\ LoadMutateSave("start_tool",
                      start_tool_state(load(file).state, tool_name, tool_input, now))
    /\ UNCHANGED now

end_tool(tool_name, success, output) ==
    /\ LoadMutateSave("end_tool",
                      end_tool_state(load(file).state, tool_name, success, output, now))
    /\ UNCHANGED now

\* A direct call of load, as the commands of telegram_bot.py make it.
load_call ==
    LET ld == load(file)
    IN  /\ ret' = IF ld.raised # ""
                  THEN Raised("load", ld.raised)
                  ELSE Returned("load", ld.state, <<>>)
        /\ UNCHANGED << file, now >>

get_status_summary ==
    LET ld == load(file)
    IN  /\ ret' = IF ld.raised # ""
                  THEN Raised("get_status_summary", ld.raised)
                  ELSE Returned("get_status_summary", ld.state,
                                status_summary(ld.state, now))
        /\ UNCHANGED << file, now >>

\* Time passes.
Tick ==
    /\ now < MaxTime
    /\ now' = now + 1
    /\ UNCHANGED << file, ret >>

\* ---------------------------------------------------------------- histories

NoOpen == [n \in ToolNames |-> 0]

Procs == {1, 2}

Idle ==
    [ pc |-> "idle", op |-> "", state |-> SessionState, seen |-> Absent,
      text |-> <<>>, off |-> 0, n |-> 0 ]

NoProcs == [p \in Procs |-> Idle]

NoLife == [phase |-> "none", sid |-> "", ok |-> 0, failed |-> 0]

\* start_tool(name) opens an execution of name.
OpenAfterStart(name) == [open EXCEPT ![name] = @ + 1]

\* end_tool(name) ends an open execution of name, if there is one.
OpenAfterEnd(name) ==
    IF open[name] > 0 THEN [open EXCEPT ![name] = @ - 1] ELSE open

\* The lifecycle so far: "session" after start_session and after each whole
\* start_tool/end_tool pair, "tool" inside a pair, "ended" after the
\* end_session that closes it, "off" once a call came out of that order.
LifeAfter(op, sid, success) ==
    CASE op = "start_session" ->
            [phase |-> "session", sid |-> sid, ok |-> 0, failed |-> 0]
      [] op = "start_tool" ->
            IF life.phase = "session"
            THEN [life EXCEPT !.phase = "tool"]
            ELSE [life EXCEPT !.phase = "off"]
      [] op = "end_tool" ->
            IF life.phase = "tool"
            THEN [life EXCEPT !.phase = "session",
                              !.ok = IF success THEN @ + 1 ELSE @,
                              !.failed = IF success THEN @ ELSE @ + 1]
            ELSE [life EXCEPT !.phase = "off"]
      [] op = "end_session" ->
            IF life.phase = "session"
            THEN [life EXCEPT !.phase = "ended"]
            ELSE [life EXCEPT !.phase = "off"]

\* ----------------------------------------------------------- specifications

Init ==
    /\ file = Absent
    /\ now = 1
    /\ ret = Returned("init", SessionState, <<>>)
    /\ hist = <<>>
    /\ open = NoOpen
    /\ life = NoLife
    /\ arg = SessionState
    /\ proc = NoProcs

\* Sequential calls with the wide inputs, from an absent store.
Next ==
    \/ \E sid \in SessionIds, dir \in ProjectDirs :
          /\ start_session(sid, dir)
          /\ life' = LifeAfter("start_session", sid, TRUE)
          /\ UNCHANGED << hist, open, arg, proc >>
    \/ \E reason \in Reasons :
          /\ end_session(reason)
          /\ life' = LifeAfter("end_session", "", TRUE)
          /\ UNCHANGED << hist, open, arg, proc >>
    \/ \E name \in ToolNames, input \in ToolInputs :
          /\ start_tool(name, input)
          /\ life' = LifeAfter("start_tool", "", TRUE)
          /\ UNCHANGED << hist, open, arg, proc >>
    \/ \E c \in EndCalls :
          /\ Persisted.total_tools < MaxCalls
          /\ end_tool(c.tool_name, c.success, c.output)
          /\ life' = LifeAfter("end_tool", "", c.success)
          /\ UNCHANGED << hist, open, arg, proc >>
    \/ Tick /\ UNCHANGED << hist, open, life, arg, proc >>

Spec == Init /\ [][Next]_vars

\* Sequential calls from an absent store with long runs of end_tool, narrow
\* inputs and a clock that stands still.
NextEvict ==
    \/ /\ start_session("abc123", "/proj")
       /\ hist' = <<>>
       /\ UNCHANGED << open, life, arg, proc >>
    \/ /\ end_session("completed")
       /\ UNCHANGED << hist, open, life, arg, proc >>
    \/ /\ start_tool("Bash", [command |-> "ls"])
       /\ UNCHANGED << hist, open, life, arg, proc >>
    \/ \E c \in EvictCalls :
          /\ Len(hist) < MaxEvictCalls
          /\ end_tool(c.tool_name, c.success, c.output)
          /\ hist' = Append(hist, tool_record(c.tool_name, c.success, c.output, now))
          /\ UNCHANGED << open, life, arg, proc >>

SpecEvict == Init /\ [][NextEvict]_vars

\* Sequential start_tool and end_tool calls from an absent store, with the
\* history of the executions that are open.
NextTools ==
    \/ \E name \in ToolNames, input \in ToolInputs :
          /\ open[name] < MaxOpen
          /\ start_tool(name, input)
          /\ open' = OpenAfterStart(name)
          /\ UNCHANGED << hist, life, arg, proc >>
    \/ \E c \in EndCalls :
          /\ Persisted.total_tools < MaxCalls
          /\ end_tool(c.tool_name, c.success, c.output)
          /\ open' = OpenAfterEnd(c.tool_name)
          /\ UNCHANGED << hist, life, arg, proc >>
    \/ Tick /\ UNCHANGED << hist, open, life, arg, proc >>

SpecTools == Init /\ [][NextTools]_vars

\* ---------------------------------------------------- stores of any content

Rec(name, success) ==
    [name |-> name, success |-> success, time |-> strftime(1), output |-> OutOk]

\* An active session with an open tool and RecentCap recent tools.
ActiveFull ==
    [ session_id |-> "0123456789abcdef", project_dir |-> "/proj",
      start_time |-> 1, end_time |-> None, is_active |-> TRUE,
      total_tools |-> 12, successful_tools |-> 7, failed_tools |-> 5,
      current_tool |-> Some([name |-> "Bash", input |-> [command |-> "ls"],
                             start_time |-> 1]),
      recent_tools |-> << Rec("Bash", TRUE), Rec("Edit", FALSE),
                          Rec("Bash", TRUE), Rec("Edit", FALSE),
                          Rec("Bash", TRUE), Rec("Edit", FALSE),
                          Rec("Bash", TRUE), Rec("Edit", FALSE),
                          Rec("Bash", TRUE), Rec("Edit", TRUE) >>,
      last_update |-> 1 ]

\* A session that has ended.
Ended ==
    [ session_id |-> "abc123", project_dir |-> "/proj",
      start_time |-> 1, end_time |-> Some(1), is_active |-> FALSE,
      total_tools |-> 1, successful_tools |-> 1, failed_tools |-> 0,
      current_tool |-> None, recent_tools |-> << Rec("Bash", TRUE) >>,
      last_update |-> 1 ]

\* What the file can hold: nothing, text that is no JSON, JSON that is no
\* object, objects with an unknown or with missing members, the start of a
\* written state, whole written states.
Texts ==
    { <<>>,
      <<Garbage>>,
      <<LBracket, RBracket>>,
      <<LBrace, Member("bogus", <<"num", 1>>), RBrace>>,
      <<LBrace, RBrace>>,
      <<LBrace, Member("session_id", <<"str", "abc123">>),
                Member("total_tools", <<"num", 5>>), RBrace>>,
      Prefix(save_text(ActiveFull, 1), 4),
      save_text(ActiveFull, 1),
      save_text(Ended, 1) }

StoreConds == {Absent} \cup { FileOf(text) : text \in Texts }

\* The stores of StoreConds, and those with a byte that is no UTF-8, that
\* the process may be unable to read or to write.
FaultConds ==
    { [c EXCEPT !.readable = r, !.writable = w] :
        c \in StoreConds \cup {FileOf(<<LBrace, BadByte, RBrace>>)},
        r \in BOOLEAN, w \in BOOLEAN }

\* Sequential calls on a store of any content.
NextStore ==
    \/ \E sid \in SessionIds, dir \in ProjectDirs :
          /\ start_session(sid, dir)
          /\ hist' = <<>>
          /\ UNCHANGED << open, life, arg, proc >>
    \/ \E reason \in Reasons :
          /\ end_session(reason)
          /\ UNCHANGED << hist, open, life, arg, proc >>
    \/ \E name \in ToolNames, input \in ToolInputs :
          /\ start_tool(name, input)
          /\ UNCHANGED << hist, open, life, arg, proc >>
    \/ \E c \in EvictCalls :
          /\ Len(hist) < MaxStoreCalls
          /\ end_tool(c.tool_name, c.success, c.output)
          /\ hist' = Append(hist, tool_record(c.tool_name, c.success, c.output, now))
          /\ UNCHANGED << open, life, arg, proc >>
    \/ Tick /\ UNCHANGED << hist, open, life, arg, proc >>

\* The same calls and the calls that only read.
NextFault ==
    \/ NextStore
    \/ load_call /\ UNCHANGED << hist, open, life, arg, proc >>
    \/ get_status_summary /\ UNCHANGED << hist, open, life, arg, proc >>

InitStore ==
    /\ file \in StoreConds
    /\ now = 1
    /\ ret = Returned("init", SessionState, <<>>)
    /\ hist = <<>>
    /\ open = NoOpen
    /\ life = NoLife
    /\ arg = SessionState
    /\ proc = NoProcs

SpecStore == InitStore /\ [][NextStore]_vars

InitFault ==
    /\ file \in FaultConds
    /\ now = 1
    /\ ret = Returned("init", SessionState, <<>>)
    /\ hist = <<>>
    /\ open = NoOpen
    /\ life = NoLife
    /\ arg = SessionState
    /\ proc = NoProcs

\* The same calls on a store that may also fail to be read or written.
SpecFault == InitFault /\ [][NextFault]_vars

\* ------------------------------------------------------------ a direct save

RECURSIVE Successes(_)
Successes(recs) ==
    IF recs = <<>> THEN 0
    ELSE (IF Head(recs).success THEN 1 ELSE 0) + Successes(Tail(recs))

\* SessionStates as the operations build them: with and without a session,
\* an end time and a current tool, with 0 to RecentCap recent tools.
ValidStates ==
    { [ session_id |-> sid,
        project_dir |-> IF sid = "" THEN "" ELSE "/proj",
        start_time |-> IF sid = "" THEN 0 ELSE 1,
        end_time |-> e,
        is_active |-> (sid # "" /\ e = None),
        total_tools |-> n,
        successful_tools |-> Successes(Prefix(ActiveFull.recent_tools, n)),
        failed_tools |-> n - Successes(Prefix(ActiveFull.recent_tools, n)),
        current_tool |-> ct,
        recent_tools |-> Prefix(ActiveFull.recent_tools, n),
        last_update |-> lu ] :
      sid \in {"", "abc123"},
      e \in {None, Some(1)},
      ct \in {None, ActiveFull.current_tool},
      n \in 0..RecentCap,
      lu \in {0, 1} }

\* StateManager.save(arg), called directly.
save_call ==
    /\ file' = [file EXCEPT !.exists = TRUE, !.text = save_text(arg, now)]
    /\ ret' = Returned("save", Stamped(arg, now), <<>>)
    /\ UNCHANGED now

InitRoundTrip ==
    /\ file = Absent
    /\ now = 1
    /\ ret = Returned("init", SessionState, <<>>)
    /\ hist = <<>>
    /\ open = NoOpen
    /\ life = NoLife
    /\ arg \in ValidStates
    /\ proc = NoProcs

NextRoundTrip ==
    \/ save_call /\ UNCHANGED << hist, open, life, arg, proc >>
    \/ file.exists /\ load_call /\ UNCHANGED << hist, open, life, arg, proc >>
    \/ Tick /\ UNCHANGED << hist, open, life, arg, proc >>

\* save of any valid state and load, in any order after the first save.
SpecRoundTrip == InitRoundTrip /\ [][NextRoundTrip]_vars

\* ------------------------------------------------------ concurrent processes

(***************************************************************************)
(* Every hook invocation and every command is a process of its own.  Its   *)
(* load reads the file as it is at that moment.  Its save is three kinds   *)
(* of step: open(..., "w") empties the file, the text reaches the file in  *)
(* one piece or in several, and the close ends the call.  Each writer      *)
(* writes at its own offset; a write past the end of the file fills the    *)
(* gap with zero bytes.                                                    *)
(***************************************************************************)
Zero == Punct("0x00")

Max(a, b) == IF a > b THEN a ELSE b

\* The text after the write of chunk at offset off.
WriteAt(text, off, chunk) ==
    LET end == off + Len(chunk)
        n == Max(Len(text), end)
        At(i) == IF i > off /\ i <= end THEN chunk[i - off]
                 ELSE IF i <= Len(text) THEN text[i]
                 ELSE Zero
        F[i \in 0..n] == IF i = 0 THEN <<>> ELSE Append(F[i - 1], At(i))
    IN  F[n]

\* The tokens of one piece: the text in MaxChunks pieces.
ChunkLen(text) == (Len(text) + MaxChunks - 1) \div MaxChunks

Others == << now, hist, open, life, arg >>

\* The invocations begun so far.
Invocations == proc[1].n + proc[2].n

\* The load of a command or of get_status_summary, by process p.
ProcLoad(p) ==
    LET ld == load(file)
    IN  /\ proc[p].pc = "idle"
        /\ Invocations < MaxInvocations
        /\ proc' = [proc EXCEPT ![p].seen = file, ![p].op = "load",
                                ![p].n = @ + 1]
        /\ ret' = IF ld.raised # ""
                  THEN Raised("load", ld.raised)
                  ELSE Returned("load", ld.state, <<>>)
        /\ UNCHANGED file
        /\ UNCHANGED Others

\* start_session up to its save, by process p.
ProcStartSession(p, session_id, project_dir) ==
    /\ proc[p].pc = "idle"
    /\ Invocations < MaxInvocations
    /\ proc' = [proc EXCEPT
                  ![p].pc = "mutated", ![p].op = "start_session",
                  ![p].state = start_session_state(session_id, project_dir, now),
                  ![p].n = @ + 1]
    /\ UNCHANGED << file, ret >>
    /\ UNCHANGED Others

\* The load of end_session, start_tool or end_tool by p and updated, the
\* operation's update of the loaded state.
ProcLoadMutate(p, op, updated) ==
    /\ proc[p].pc = "idle"
    /\ Invocations < MaxInvocations
    /\ IF load(file).raised # ""
       THEN /\ proc' = [proc EXCEPT ![p].seen = file, ![p].op = op,
                                    ![p].n = @ + 1]
            /\ ret' = Raised(op, load(file).raised)
       ELSE /\ proc' = [proc EXCEPT ![p].pc = "mutated", ![p].op = op,
                                    ![p].seen = file,
                                    ![p].state = updated,
                                    ![p].n = @ + 1]
            /\ UNCHANGED ret
    /\ UNCHANGED file
    /\ UNCHANGED Others

ProcEndSession(p, reason) ==
    ProcLoadMutate(p, "end_session",
                   end_session_state(load(file).state, reason, now))

ProcStartTool(p, tool_name, tool_input) ==
    ProcLoadMutate(p, "start_tool",
                   start_tool_state(load(file).state, tool_name, tool_input, now))

ProcEndTool(p, tool_name, success, output) ==
    ProcLoadMutate(p, "end_tool",
                   end_tool_state(load(file).state, tool_name, success, output, now))

\* save: last_update is stamped and open(..., "w") empties the file.
SaveOpen(p) ==
    /\ proc[p].pc = "mutated"
    /\ file.writable
    /\ file' = [file EXCEPT !.exists = TRUE, !.text = <<>>]
    /\ proc' = [proc EXCEPT ![p].pc = "writing",
                            ![p].state = Stamped(@, now),
                            ![p].text = save_text(proc[p].state, now),
                            ![p].off = 0]
    /\ UNCHANGED ret
    /\ UNCHANGED Others

\* save: the next k tokens of the text reach the file.
SaveWrite(p, k) ==
    /\ proc[p].pc = "writing"
    /\ k > 0
    /\ proc[p].off + k <= Len(proc[p].text)
    /\ file' = [file EXCEPT !.text =
                  WriteAt(@, proc[p].off,
                          SubSeq(proc[p].text, proc[p].off + 1, proc[p].off + k))]
    /\ proc' = [proc EXCEPT ![p].off = @ + k]
    /\ UNCHANGED ret
    /\ UNCHANGED Others

\* save: the file is closed with the whole text written; the operation
\* returns its state.
SaveClose(p) ==
    /\ proc[p].pc = "writing"
    /\ proc[p].off = Len(proc[p].text)
    /\ proc' = [proc EXCEPT ![p].pc = "idle", ![p].text = <<>>, ![p].off = 0]
    /\ ret' = Returned(proc[p].op, proc[p].state, <<>>)
    /\ UNCHANGED file
    /\ UNCHANGED Others

NextConc ==
    \E p \in Procs :
        \/ ProcLoad(p)
        \/ ProcStartSession(p, "abc123", "/proj")
        \/ ProcEndSession(p, "completed")
        \/ ProcStartTool(p, "Bash", [command |-> "ls"])
        \/ \E c \in EvictCalls : ProcEndTool(p, c.tool_name, c.success, c.output)
        \/ SaveOpen(p)
        \/ \E k \in {ChunkLen(proc[p].text), Len(proc[p].text) - proc[p].off} :
              SaveWrite(p, k)
        \/ SaveClose(p)

\* Processes that interleave their loads and the steps of their saves.
SpecConc == Init /\ [][NextConc]_vars

\* ------------------------------------------------------------------- claims

\* The file holds one whole written SessionState.
StoreValid(f) ==
    /\ f.exists
    /\ f.readable
    /\ json_load(f.text).err = ""
    /\ ~from_dict_TypeError(json_load(f.text))
    /\ Keys(json_load(f.text).members) = FieldNames

\* C1 (Spec): from an absent store, in every persisted state of any sequence
\* of start_session, start_tool, end_tool and end_session calls, so after
\* every end_tool call, total_tools = successful_tools + failed_tools and the
\* three counters are not negative; end_tool leaves a whole state in the store.
C1_CounterInvariant ==
    /\ Persisted.total_tools = Persisted.successful_tools + Persisted.failed_tools
    /\ Persisted.total_tools >= 0
    /\ Persisted.successful_tools >= 0
    /\ Persisted.failed_tools >= 0
    /\ ret.op = "end_tool" => StoreValid(file)

\* An end_tool call has just ended a run with a success and a failure.
C1_Witness ==
    /\ ret.op = "end_tool"
    /\ Persisted.successful_tools >= 1
    /\ Persisted.failed_tools >= 1

\* C2 (SpecEvict): recent_tools never holds more than RecentCap records;
\* after N end_tool calls since start_session (or since the absent store) it
\* holds the records of the last RecentCap of them in call order when
\* N > RecentCap, and all N in call order otherwise.
C2_EvictionBound ==
    LET recent == Persisted.recent_tools
        N == Len(hist)
    IN  /\ Len(recent) <= RecentCap
        /\ N > RecentCap =>
              /\ Len(recent) = RecentCap
              /\ \A i \in 1..RecentCap : recent[i] = hist[N - RecentCap + i]
        /\ N <= RecentCap => recent = hist

\* More than RecentCap end_tool calls were made, the evicted record differs
\* from the oldest one kept.
C2_Witness ==
    /\ Len(hist) = RecentCap + 1
    /\ Len(Persisted.recent_tools) = RecentCap
    /\ hist[1] # hist[2]
    /\ ret.op = "end_tool"

\* C6 as claimed (SpecTools): current_tool is present exactly while some
\* started tool has no matching end_tool.
C6_CurrentToolIffOpen ==
    (Persisted.current_tool # None) <=> (\E n \in ToolNames : open[n] > 0)

\* C6 as amended (SpecTools): current_tool is present exactly when the last
\* of the start_tool and end_tool calls was a start_tool, and it then names a
\* tool that is still open; every end_tool clears it, whatever tool it names.
C6_CurrentToolIffLastStart ==
    /\ (Persisted.current_tool # None) <=> (ret.op = "start_tool")
    /\ Persisted.current_tool # None =>
          open[Persisted.current_tool[1].name] > 0

\* An end_tool has cleared current_tool while another started tool is open.
C6_Witness ==
    /\ ret.op = "end_tool"
    /\ Persisted.current_tool = None
    /\ \E n \in ToolNames : open[n] > 0

\* C7 (SpecStore): whatever the store holds, after start_session(id, dir) it
\* holds a whole state with that id and dir, active, all counters 0, no
\* recent tools, no current tool and no end time.
C7_StartSessionReplaces ==
    [][ \A sid \in SessionIds, dir \in ProjectDirs :
          (ret'.op = "start_session" /\ start_session(sid, dir)) =>
            LET post == load(file').state
            IN  /\ StoreValid(file')
                /\ post.session_id = sid
                /\ post.project_dir = dir
                /\ post.is_active = TRUE
                /\ post.total_tools = 0
                /\ post.successful_tools = 0
                /\ post.failed_tools = 0
                /\ post.recent_tools = <<>>
                /\ post.current_tool = None
                /\ post.end_time = None ]_vars

\* start_session has written a new session at a later time than any stored
\* state was written.
C7_Witness ==
    /\ ret.op = "start_session"
    /\ Persisted.session_id = "0123456789abcdef"
    /\ Persisted.start_time > 1
    /\ Persisted.total_tools = 0

\* C8 (SpecStore): end_session clears is_active and current_tool, sets
\* end_time (and last_update) to the clock and leaves every other field as
\* load returned it; the persisted state is the same for every reason.
C8_EndSessionFrame ==
    [][ \A reason \in Reasons :
          (ret'.op = "end_session" /\ end_session(reason)) =>
            LET pre == load(file).state
                post == load(file').state
            IN  /\ StoreValid(file')
                /\ post.is_active = FALSE
                /\ post.end_time = Some(now)
                /\ post.current_tool = None
                /\ post.last_update = now
                /\ post.session_id = pre.session_id
                /\ post.project_dir = pre.project_dir
                /\ post.start_time = pre.start_time
                /\ post.total_tools = pre.total_tools
                /\ post.successful_tools = pre.successful_tools
                /\ post.failed_tools = pre.failed_tools
                /\ post.recent_tools = pre.recent_tools ]_vars

\* end_session has ended the session that had an open tool and RecentCap
\* recent tools.
C8_Witness ==
    /\ ret.op = "end_session"
    /\ Persisted.session_id = "0123456789abcdef"
    /\ Persisted.total_tools = 12
    /\ Len(Persisted.recent_tools) = RecentCap
    /\ Persisted.current_tool = None
    /\ Persisted.end_time # None

\* C9 (Spec): after start_session(id, dir), k pairs of start_tool and end_tool
\* of which life.ok succeeded and life.failed failed, and end_session, the
\* store holds total_tools = k, those two counts, an inactive session without
\* a current tool, and the id given.
C9_Lifecycle ==
    life.phase = "ended" =>
        /\ StoreValid(file)
        /\ Persisted.total_tools = life.ok + life.failed
        /\ Persisted.successful_tools = life.ok
        /\ Persisted.failed_tools = life.failed
        /\ Persisted.is_active = FALSE
        /\ Persisted.current_tool = None
        /\ Persisted.session_id = life.sid

\* A lifecycle of two pairs, one success and one failure, has ended.
C9_Witness ==
    /\ life.phase = "ended"
    /\ life.ok = 1
    /\ life.failed = 1
    /\ life.sid = "abc123"

\* C4 as claimed (SpecFault): load never raises; it returns the stored state
\* for a JSON object of SessionState fields and the default state otherwise.
C4_LoadNeverRaises ==
    ret.op = "load" =>
        /\ ret.raised = ""
        /\ LET data == json_load(file.text)
           IN  IF file.exists /\ data.err = "" /\ ~from_dict_TypeError(data)
               THEN ret.state = from_dict(data)
               ELSE ret.state = SessionState

\* C5 as claimed (SpecFault): no call of the State Manager raises.
C5_NoOperationRaises == ret.raised = ""

\* C10 (SpecRoundTrip): a load after save(arg) returns arg in every field
\* but last_update, and a last_update that is not less than that of arg.
C10_RoundTrip ==
    (ret.op = "load" /\ file.exists) =>
        /\ ret.raised = ""
        /\ ret.state.session_id = arg.session_id
        /\ ret.state.project_dir = arg.project_dir
        /\ ret.state.start_time = arg.start_time
        /\ ret.state.end_time = arg.end_time
        /\ ret.state.is_active = arg.is_active
        /\ ret.state.total_tools = arg.total_tools
        /\ ret.state.successful_tools = arg.successful_tools
        /\ ret.state.failed_tools = arg.failed_tools
        /\ ret.state.current_tool = arg.current_tool
        /\ ret.state.recent_tools = arg.recent_tools
        /\ ret.state.last_update >= arg.last_update

\* A state with an end time, a current tool and RecentCap recent tools was
\* saved at a later time and loaded.
C10_Witness ==
    /\ ret.op = "load"
    /\ file.exists
    /\ arg.end_time # None
    /\ arg.current_tool # None
    /\ Len(arg.recent_tools) = RecentCap
    /\ ret.state.last_update > arg.last_update

\* C3 as claimed (SpecConc): the file a load reads is absent or holds one
\* whole written state, never an empty or partly written text.
C3_ReaderSeesWholeFile ==
    \A p \in Procs : ~proc[p].seen.exists \/ StoreValid(proc[p].seen)

\* The operations that load, mutate and save, and start_session.
Mutating == {"start_session", "end_session", "start_tool", "end_tool"}

\* Both processes have run one mutating invocation to the end of its save.
BothSaved ==
    \A p \in Procs :
        /\ proc[p].pc = "idle"
        /\ proc[p].n = 1
        /\ proc[p].op \in Mutating

\* C11 as claimed (SpecConc): when two mutating invocations have interleaved
\* their load, mutate and save steps and both have finished, the store holds
\* the state written by the one that saved last; whichever of the two that
\* is, the store then holds one whole state that one of them wrote.
C11_LastWriterWins ==
    BothSaved =>
        /\ StoreValid(file)
        /\ \E p \in Procs : Persisted = proc[p].state

\* ------------------------------------------------ the commands of the bot

ChatIds == {42}

\* reversed(s)
RECURSIVE Reversed(_)
Reversed(s) == IF s = <<>> THEN <<>> ELSE Append(Reversed(Tail(s)), Head(s))

\* status_command: the lines of its reply for a loaded state.
status_reply(state, t) ==
    IF state.session_id = "" THEN << <<"No active session">> >>
    ELSE << <<"CLAUDE CODE STATUS">>,
            <<"Status", IF state.is_active THEN "ACTIVE" ELSE "IDLE">>,
            <<"Session", Prefix8(state.session_id)>>,
            <<"Duration", duration_str(state, t)>>,
            <<"Tools Run", state.successful_tools, state.total_tools>>,
            <<"Errors", state.failed_tools>> >>
         \o (IF state.current_tool # None
             THEN << <<"Currently Running", state.current_tool[1].name>> >>
             ELSE <<>>)

\* session_command: the lines of its reply for a loaded state.
session_reply(state, t) ==
    IF state.session_id = "" THEN << <<"No session data">> >>
    ELSE << <<"SESSION DETAILS">>,
            <<"Session ID", state.session_id>>,
            <<"Project", IF state.project_dir # ""
                         THEN Basename(state.project_dir) ELSE "Unknown">>,
            <<"Status", IF state.is_active THEN "Active" ELSE "Ended">>,
            <<"Duration", duration_str(state, t)>>,
            <<"Total Tools", state.total_tools>>,
            <<"Successful", state.successful_tools>>,
            <<"Failed", state.failed_tools>> >>

\* One line of tasks_command per tool record.
RECURSIVE task_lines(_)
task_lines(recs) ==
    IF recs = <<>> THEN <<>>
    ELSE << << IF Head(recs).success THEN "OK" ELSE "ERR",
               Head(recs).name, Head(recs).time >> >>
         \o task_lines(Tail(recs))

\* tasks_command: the lines of its reply for a loaded state.
tasks_reply(state) ==
    IF state.recent_tools = <<>> THEN << <<"No recent tasks">> >>
    ELSE << <<"RECENT TASKS">> >>
         \o task_lines(Reversed(Suffix(state.recent_tools, 5)))

\* The end of a command that has loaded ld and replies out.
Replied(op, ld, out) ==
    IF ld.raised # "" THEN Raised(op, ld.raised)
    ELSE Returned(op, ld.state, out)

\* start_command: the welcome with the chat id; no use of the State Manager.
start_command(chat_id) ==
    /\ ret' = Returned("start_command", SessionState,
                       << <<"Claude Code Monitor Bot">>, <<"Chat ID", chat_id>> >>)
    /\ UNCHANGED << file, now >>

\* status_command that saves the state it has loaded.
status_command_Saves ==
    LET ld == load(file)
    IN  /\ ret' = Replied("status_command", ld, status_reply(ld.state, now))
        /\ file' = IF ld.raised = "" /\ file.writable
                   THEN [file EXCEPT !.exists = TRUE,
                                     !.text = save_text(ld.state, now)]
                   ELSE file
        /\ UNCHANGED now

status_command ==
    LET ld == load(file)
    IN  /\ ret' = Replied("status_command", ld, status_reply(ld.state, now))
        /\ UNCHANGED << file, now >>

session_command ==
    LET ld == load(file)
    IN  /\ ret' = Replied("session_command", ld, session_reply(ld.state, now))
        /\ UNCHANGED << file, now >>

tasks_command ==
    LET ld == load(file)
    IN  /\ ret' = Replied("tasks_command", ld, tasks_reply(ld.state))
        /\ UNCHANGED << file, now >>

\* help_command: a fixed text; no use of the State Manager.
help_command ==
    /\ ret' = Returned("help_command", SessionState,
                       << <<"Claude Code Monitor Bot">>, <<"Commands">> >>)
    /\ UNCHANGED << file, now >>

\* The commands of the bot and get_status_summary, in any order, on a store
\* of any content that may also fail to be read or written.
NextQuery ==
    \/ \E chat_id \in ChatIds :
          start_command(chat_id) /\ UNCHANGED << hist, open, life, arg, proc >>
    \/ status_command /\ UNCHANGED << hist, open, life, arg, proc >>
    \/ session_command /\ UNCHANGED << hist, open, life, arg, proc >>
    \/ tasks_command /\ UNCHANGED << hist, open, life, arg, proc >>
    \/ help_command /\ UNCHANGED << hist, open, life, arg, proc >>
    \/ get_status_summary /\ UNCHANGED << hist, open, life, arg, proc >>
    \/ Tick /\ UNCHANGED << hist, open, life, arg, proc >>

SpecQuery == InitFault /\ [][NextQuery]_vars

\* C12 (SpecQuery): the status, session, tasks, start and help commands and
\* get_status_summary leave the store as it is, whatever it holds, so no
\* sequence of them changes it.
C12_QueryReadOnly == [][file' = file]_vars

\* tasks_command has replied with the recent tools of an active session, at a
\* later time than the store was written, and the store is as it was written.
C12_Witness ==
    /\ ret.op = "tasks_command"
    /\ ret.raised = ""
    /\ Len(ret.out) = 6
    /\ now > 1
    /\ file = FileOf(save_text(ActiveFull, 1))

\* --------------------------------------------------- duration_str directly

\* Session start times: none (0) and two clock values.
StartTimes == {0, 1, 1000}

\* Durations at and around the bucket boundaries, in seconds.
Durations == {0, 45, 59, 60, 61, 125, 3599, 3600, 3601, 3725, 7325}

\* Sessions of each start time that run or have ended after each duration.
DurationStates ==
    { [ActiveFull EXCEPT !.start_time = s,
                         !.end_time = None,
                         !.is_active = TRUE] : s \in StartTimes }
    \cup
    { [ActiveFull EXCEPT !.start_time = s,
                         !.end_time = Some(s + d),
                         !.is_active = FALSE] :
      s \in StartTimes, d \in Durations }

\* state.duration_str, read at the clock.
duration_call ==
    /\ ret' = Returned("duration_str", arg, duration_str(arg, now))
    /\ UNCHANGED << file, now >>

InitDuration ==
    /\ file = Absent
    /\ arg \in DurationStates
    /\ now \in { arg.start_time + d : d \in Durations }
    /\ ret = Returned("init", SessionState, <<>>)
    /\ hist = <<>>
    /\ open = NoOpen
    /\ life = NoLife
    /\ proc = NoProcs

NextDuration == duration_call /\ UNCHANGED << hist, open, life, arg, proc >>

\* duration_str of any of the sessions at any of the clock values.
SpecDuration == InitDuration /\ [][NextDuration]_vars

\* C13 (SpecDuration): with d = end - start_time in whole seconds, end being
\* end_time when set and the clock otherwise, duration_str is "<d>s" for
\* d < 60, "<M>m <S>s" with 60 M + S = d and S < 60 for 60 <= d < 3600, and
\* "<H>h <M>m" with M < 60 and 3600 H + 60 M the whole minutes of d for
\* d >= 3600; 45 is "45s", 59 "59s", 60 "1m 0s", 125 "2m 5s", 3599 "59m 59s",
\* 3600 "1h 0m" and 3725 "1h 2m".
C13_DurationBuckets ==
    (ret.op = "duration_str" /\ arg.start_time # 0) =>
        LET end == IF arg.end_time # None THEN arg.end_time[1] ELSE now
            d == end - arg.start_time
            out == ret.out
        IN  /\ d < 60 => out = <<d, "s">>
            /\ (60 <= d /\ d < 3600) =>
                  /\ Len(out) = 4
                  /\ out[2] = "m" /\ out[4] = "s"
                  /\ out[3] \in 0..59
                  /\ 60 * out[1] + out[3] = d
            /\ d >= 3600 =>
                  /\ Len(out) = 4
                  /\ out[2] = "h" /\ out[4] = "m"
                  /\ out[3] \in 0..59
                  /\ 3600 * out[1] + 60 * out[3] <= d
                  /\ d < 3600 * out[1] + 60 * out[3] + 60
            /\ d = 45 => out = <<45, "s">>
            /\ d = 59 => out = <<59, "s">>
            /\ d = 60 => out = <<1, "m", 0, "s">>
            /\ d = 125 => out = <<2, "m", 5, "s">>
            /\ d = 3599 => out = <<59, "m", 59, "s">>
            /\ d = 3600 => out = <<1, "h", 0, "m">>
            /\ d = 3725 => out = <<1, "h", 2, "m">>

\* duration_str of a running session exactly one hour after its start.
C13_Witness ==
    /\ ret.op = "duration_str"
    /\ arg.end_time = None
    /\ now - arg.start_time = 3600
    /\ arg.start_time # 0
    /\ ret.out = <<1, "h", 0, "m">>

\* ------------------------------------------------- more claims on the tools

\* C14 (SpecTools): an end_tool(name, success, output) that finds no
\* current_tool, or a current_tool of another name, adds 1 to total_tools and
\* to the counter of its outcome only, appends a record with the name and
\* outcome it was given and clears current_tool.
C14_EndToolUnpaired ==
    [][ \A c \in EndCalls :
          ( /\ ret'.op = "end_tool"
            /\ end_tool(c.tool_name, c.success, c.output)
            /\ \/ Persisted.current_tool = None
               \/ Persisted.current_tool[1].name # c.tool_name ) =>
            LET pre == load(file).state
                post == load(file').state
                last == post.recent_tools[Len(post.recent_tools)]
            IN  /\ post.total_tools = pre.total_tools + 1
                /\ post.successful_tools =
                      pre.successful_tools + (IF c.success THEN 1 ELSE 0)
                /\ post.failed_tools =
                      pre.failed_tools + (IF c.success THEN 0 ELSE 1)
                /\ Len(post.recent_tools) = Min(Len(pre.recent_tools) + 1, RecentCap)
                /\ last.name = c.tool_name
                /\ last.success = c.success
                /\ post.current_tool = None ]_vars

\* Bash was started and the only end_tool so far named Edit: it was counted
\* and recorded as Edit, and current_tool is cleared while Bash is open.
C14_Witness ==
    /\ ret.op = "end_tool"
    /\ open["Bash"] > 0
    /\ open["Edit"] = 0
    /\ Persisted.total_tools = 1
    /\ Persisted.successful_tools = 1
    /\ Persisted.recent_tools[1].name = "Edit"
    /\ Persisted.current_tool = None

\* C15 (SpecStore): start_tool(name, input) sets current_tool to that name
\* and input at the clock, whatever current_tool was, and last_update; every
\* other field stays as load returned it, also for an ended session and for
\* a store without a session.
C15_StartToolFrame ==
    [][ \A name \in ToolNames, input \in ToolInputs :
          (ret'.op = "start_tool" /\ start_tool(name, input)) =>
            LET pre == load(file).state
                post == load(file').state
            IN  /\ StoreValid(file')
                /\ post.current_tool =
                      Some([name |-> name, input |-> input, start_time |-> now])
                /\ post.last_update = now
                /\ post.session_id = pre.session_id
                /\ post.project_dir = pre.project_dir
                /\ post.start_time = pre.start_time
                /\ post.end_time = pre.end_time
                /\ post.is_active = pre.is_active
                /\ post.total_tools = pre.total_tools
                /\ post.successful_tools = pre.successful_tools
                /\ post.failed_tools = pre.failed_tools
                /\ post.recent_tools = pre.recent_tools ]_vars

\* start_tool has set current_tool in the session that had ended.
C15_Witness ==
    /\ ret.op = "start_tool"
    /\ Persisted.session_id = "abc123"
    /\ Persisted.is_active = FALSE
    /\ Persisted.end_time = Some(1)
    /\ Persisted.current_tool # None
    /\ Persisted.current_tool[1].name = "Edit"
    /\ Persisted.recent_tools = << Rec("Bash", TRUE) >>

\* The fields of a state that tell which session it is and whether it runs.
SessionOf(state) ==
    [ session_id |-> state.session_id, project_dir |-> state.project_dir,
      start_time |-> state.start_time, end_time |-> state.end_time,
      is_active |-> state.is_active ]

\* C17 (Spec): from an absent store, which holds no active state, every call
\* leaves a persisted state that, if active, has no end_time and the id of
\* the last start_session; is_active becomes true only
\* in start_session and false only in end_session; start_tool and end_tool
\* leave is_active, end_time, session_id, project_dir and start_time alone.
C17_ActiveSession ==
    [][ \A pre \in {load(file).state}, post \in {load(file').state} :
          /\ post.is_active =>
                /\ post.end_time = None
                /\ post.session_id = life'.sid
          /\ (~pre.is_active /\ post.is_active) => ret'.op = "start_session"
          /\ (pre.is_active /\ ~post.is_active) => ret'.op = "end_session"
          /\ ret'.op \in {"start_tool", "end_tool"} =>
                SessionOf(post) = SessionOf(pre) ]_vars

\* A second session, started at a later time, is active after an end_tool.
C17_Witness ==
    /\ ret.op = "end_tool"
    /\ Persisted.is_active
    /\ Persisted.session_id = "0123456789abcdef"
    /\ life.sid = "0123456789abcdef"
    /\ Persisted.start_time > 1
    /\ Persisted.total_tools = 1

\* ------------------------------------------------ more claims on the races

\* Every load so far has read a file that was absent or whole.
LoadsSawWhole ==
    \A p \in Procs : ~proc[p].seen.exists \/ StoreValid(proc[p].seen)

\* Every save that was begun has written its whole text and closed the file.
NoSaveInProgress == \A p \in Procs : proc[p].pc # "writing"

RecoverConds ==
    { Absent,
      FileOf(<<>>),
      FileOf(<<Garbage>>),
      FileOf(Prefix(save_text(ActiveFull, 1), 4)),
      FileOf(Prefix(save_text(ActiveFull, 1), 12)) }

InitRecover ==
    /\ file \in RecoverConds
    /\ now = 1
    /\ ret = Returned("init", SessionState, <<>>)
    /\ hist = <<>>
    /\ open = NoOpen
    /\ life = NoLife
    /\ arg = SessionState
    /\ proc = NoProcs

\* Calls other than start_session, and get_status_summary.
NextRecover ==
    \/ \E reason \in Reasons :
          /\ end_session(reason)
          /\ UNCHANGED << hist, open, life, arg, proc >>
    \/ \E name \in ToolNames, input \in ToolInputs :
          /\ start_tool(name, input)
          /\ UNCHANGED << hist, open, life, arg, proc >>
    \/ \E c \in EvictCalls :
          /\ Len(hist) < MaxStoreCalls
          /\ end_tool(c.tool_name, c.success, c.output)
          /\ hist' = Append(hist, tool_record(c.tool_name, c.success, c.output, now))
          /\ UNCHANGED << open, life, arg, proc >>
    \/ get_status_summary /\ UNCHANGED << hist, open, life, arg, proc >>
    \/ Tick /\ UNCHANGED << hist, open, life, arg, proc >>

SpecRecover == InitRecover /\ [][NextRecover]_vars

\* The store is absent or its text is no JSON.
Lost(f) == ~f.exists \/ json_load(f.text).err = "JSONDecodeError"

\* C18 (SpecRecover): on a store that is absent or holds malformed JSON,
\* end_session, start_tool and end_tool write a whole state built from the
\* default state: session_id "", no project, start_time 0, and for end_tool
\* total_tools 1 and one record, for the others total_tools 0 and no record;
\* get_status_summary on a store with session_id "" returns "No active
\* session", whatever its counters.
C18_RecoveryByOverwrite ==
    /\ [][ /\ \A reason \in Reasons :
                (Lost(file) /\ ret'.op = "end_session" /\ end_session(reason)) =>
                  LET post == load(file').state
                  IN  /\ StoreValid(file')
                      /\ post = [SessionState EXCEPT !.end_time = Some(now),
                                                     !.last_update = now]
           /\ \A name \in ToolNames, input \in ToolInputs :
                (Lost(file) /\ ret'.op = "start_tool" /\ start_tool(name, input)) =>
                  LET post == load(file').state
                  IN  /\ StoreValid(file')
                      /\ post.session_id = ""
                      /\ post.project_dir = ""
                      /\ post.start_time = 0
                      /\ post.total_tools = 0
                      /\ post.successful_tools = 0
                      /\ post.failed_tools = 0
                      /\ post.recent_tools = <<>>
                      /\ post.current_tool # None
           /\ \A c \in EvictCalls :
                ( /\ Lost(file)
                  /\ ret'.op = "end_tool"
                  /\ end_tool(c.tool_name, c.success, c.output) ) =>
                  LET post == load(file').state
                  IN  /\ StoreValid(file')
                      /\ post.session_id = ""
                      /\ post.project_dir = ""
                      /\ post.start_time = 0
                      /\ post.total_tools = 1
                      /\ post.successful_tools + post.failed_tools = 1
                      /\ Len(post.recent_tools) = 1
                      /\ post.recent_tools[1].name = c.tool_name ]_vars
    /\ []( ( /\ ret.op = "get_status_summary"
             /\ Persisted.session_id = "" ) =>
               /\ ret.raised = ""
               /\ ret.out = << <<"No active session">> >> )

\* An end_tool on a lost store has left a whole state without session id and
\* with one counted tool, and get_status_summary has then answered "No active
\* session".
C18_Witness ==
    /\ ret.op = "get_status_summary"
    /\ ret.out = << <<"No active session">> >>
    /\ StoreValid(file)
    /\ Persisted.session_id = ""
    /\ Persisted.total_tools = 1
    /\ Len(Persisted.recent_tools) = 1

====
